---- MODULE Spec2Model ----
(***************************************************************************)
(* Model of sentinel_processing.py: the Sentinel-2 scene query, the per    *)
(* scene band extraction, normalisation, RGB composition, the SEN2SR       *)
(* resolution simulation and the comparison figure.                        *)
(*                                                                         *)
(* Numbers.  A band is a grid of exact rationals px[r,c] / den, the value  *)
(* the float64 sample approximates.  The constant 1e-10 of normalize is    *)
(* 1 / 10^EpsExp and is only ever compared through floor divisions, so no  *)
(* intermediate leaves the 32-bit integers.  The rounding of float64 is    *)
(* modelled where it decides a comparison: the sum max - min + 1e-10       *)
(* rounds back to max - min once max - min reaches 2^20; and where the     *)
(* distance of a normalised value to 1 is compared with a tolerance, the   *)
(* ranges at which the rounding of the samples and of the quotient decides *)
(* are reported as such, not decided.                                      *)
(***************************************************************************)
EXTENDS Integers, Sequences, FiniteSets, TLC

\* ------------------------------------------------------------- bounds
\* largest raw pixel value of an enumerated band
MaxVal == 1
\* largest number of pixels of an enumerated band (h * w <= MaxCells)
MaxCells == 4
\* largest upsampling factor given to simulate_band on its own
MaxFactor == 4
\* largest number of pixels of a downloaded raster's bands
MaxRasterCells == 2
\* largest number of scenes in an enumerated catalogue of the query alone
MaxCatalog == 2

\* ------------------------------------------------- numeric conventions
\* img_as_float of an unsigned 16-bit array divides by the type's maximum
UINT16_MAX == 65535
\* normalize's guard is 1e-10 = 1 / 10^EpsExp
EpsExp == 10
\* 1e-10 is below half a unit in the last place of a float64 from 2^20 on:
\* x + 1e-10 = x for every float64 x >= 2^20, and x + 1e-10 > x below it
EpsAbsorbedFrom == 1048576

RECURSIVE DivPow10(_, _)
\* floor(x / 10^n), one floor division at a time
DivPow10(x, n) == IF n = 0 THEN x ELSE DivPow10(x \div 10, n - 1)

\* floor(x * eps) for eps = 10^-EpsExp
FloorTimesEps(x) == DivPow10(x, EpsExp)

\* -------------------------------------------------------------- bands
\* an array held in memory: its elements are computed once, when it is made,
\* not on every read
Array(f) == IF f = f THEN f ELSE f

Pixels(h, w) == (0 .. h - 1) \X (0 .. w - 1)

Shapes == {s \in (1 .. MaxCells) \X (1 .. MaxCells) : s[1] * s[2] <= MaxCells}

Dtypes == {"uint16", "float64"}

\* an array as rasterio delivers it: integer-valued samples of one dtype
RawBand(dtype, h, w, px) ==
    [dtype |-> dtype, h |-> h, w |-> w, den |-> 1, px |-> px, usm |-> FALSE]

\* a float64 array of fine samples, multiples of 2^-20
FineBand(h, w, px) ==
    [dtype |-> "float64", h |-> h, w |-> w, den |-> EpsAbsorbedFrom, px |-> px,
     usm |-> FALSE]

\* the sample values enumerated for a dtype: the small ones, and for a
\* float64 band the first value whose range swallows normalize's 1e-10
RawValues(dtype) ==
    IF dtype = "float64" THEN (0 .. MaxVal) \cup {EpsAbsorbedFrom} ELSE 0 .. MaxVal

RawBands ==
    UNION {{RawBand(d, s[1], s[2], px) : px \in [Pixels(s[1], s[2]) -> RawValues(d)]} :
           s \in Shapes, d \in Dtypes}

FineBands ==
    UNION {{FineBand(s[1], s[2], px) : px \in [Pixels(s[1], s[2]) -> 0 .. MaxVal]} :
           s \in Shapes}

\* the bands normalize and simulate_band are called on by themselves
Bands == RawBands \cup FineBands

BandMin(b) ==
    LET vals == {b.px[p] : p \in DOMAIN b.px}
    IN  CHOOSE m \in vals : \A v \in vals : m <= v
BandMax(b) ==
    LET vals == {b.px[p] : p \in DOMAIN b.px}
    IN  CHOOSE m \in vals : \A v \in vals : m >= v

\* two arrays have the same shape and, pixel by pixel, the same value
SameShape(a, b) == a.h = b.h /\ a.w = b.w
SameValues(a, b) ==
    /\ SameShape(a, b)
    /\ a.usm = b.usm
    /\ \A p \in DOMAIN a.px : a.px[p] * b.den = b.px[p] * a.den

\* ------------------------------------------------------ simulate_band
\* skimage converts the input with img_as_float unless preserve_range is
\* given: an integer array is divided by its dtype's maximum
convert_to_float(b) ==
    IF b.dtype = "uint16"
    THEN [b EXCEPT !.dtype = "float64", !.den = b.den * UINT16_MAX]
    ELSE b

\* ndimage's 'mirror' boundary: reflection about the centre of the edge pixel
mirror(i, n) ==
    IF n <= 1 THEN 0
    ELSE IF i < 0 THEN -i
    ELSE IF i >= n THEN 2 * (n - 1) - i
    ELSE i

\* Output index o of an axis zoomed by factor f samples the input at
\* (o + 1/2) / f - 1/2 = (2o + 1 - f) / (2f): the index below it and the
\* weight, in units of 1/(2f), of the index above it.
ZoomLo(o, f) == (2 * o + 1 - f) \div (2 * f)
ZoomT(o, f) == (2 * o + 1 - f) - ZoomLo(o, f) * (2 * f)

\* order-1 (bilinear) interpolation of one output pixel, in units of
\* 1 / (den * (2f)^2)
ZoomPixel(b, f, r, c) ==
    LET D == 2 * f
        r0 == ZoomLo(r, f)
        c0 == ZoomLo(c, f)
        tr == ZoomT(r, f)
        tc == ZoomT(c, f)
        at(i, k) == b.px[<<mirror(i, b.h), mirror(k, b.w)>>]
    IN  (D - tr) * (D - tc) * at(r0, c0)
      + (D - tr) * tc * at(r0, c0 + 1)
      + tr * (D - tc) * at(r0 + 1, c0)
      + tr * tc * at(r0 + 1, c0 + 1)

ResizeShapeBug(b, factor) == <<b.h + factor, b.w + factor>>
\* the output shape handed to resize
ResizeShape(b, factor) == <<b.h * factor, b.w * factor>>

\* resize(band, (H*factor, W*factor), anti_aliasing=True): conversion to
\* float, no smoothing when upsampling (sigma = max(0, (1/factor - 1)/2) = 0),
\* then a bilinear zoom on the pixel-centre grid
resize(band, factor) ==
    LET b == convert_to_float(band)
        s == ResizeShape(band, factor)
    IN  [dtype |-> "float64",
         h |-> s[1],
         w |-> s[2],
         den |-> b.den * (2 * factor) * (2 * factor),
         px |-> Array([p \in Pixels(s[1], s[2]) |-> ZoomPixel(b, factor, p[1], p[2])]),
         usm |-> b.usm]

\* filters.unsharp_mask(resized, radius=2, amount=1.5): same shape; the
\* Gaussian weights are irrational, so the sharpened values are not
\* evaluated, the array is marked as sharpened
unsharp_mask(b) == [b EXCEPT !.usm = TRUE]

simulate_band(band_data, factor, sharpness) ==
    LET resized == resize(band_data, factor)
    IN  IF sharpness THEN unsharp_mask(resized) ELSE resized

\* ---------------------------------------------------------- normalize
\* (band - min) / (max - min + 1e-10).  With band = px/den the quotient is
\* n / (rng + den * eps), n = px - min(px), rng = max(px) - min(px).
normalize_unshifted(band) ==
    [h |-> band.h, w |-> band.w, n |-> band.px,
     rng |-> BandMax(band) - BandMin(band), den |-> band.den, usm |-> band.usm]
normalize(band) ==
    LET lo == BandMin(band)
        hi == BandMax(band)
    IN  [h |-> band.h,
         w |-> band.w,
         n |-> Array([p \in DOMAIN band.px |-> band.px[p] - lo]),
         rng |-> hi - lo,
         den |-> band.den,
         usm |-> band.usm]

\* the float64 sum (max - min) + 1e-10 is max - min itself
EpsAbsorbed(nb) == nb.rng \div nb.den >= EpsAbsorbedFrom

\* comparisons of a normalised value v = n / (rng + den * eps), each reduced
\* to integers:  x * 10^EpsExp <= y  iff  x <= floor(y / 10^EpsExp)
NormIsZero(nb, p) == nb.n[p] = 0
NormGeZero(nb, p) == nb.n[p] >= 0
NormLeOne(nb, p) == nb.n[p] - nb.rng <= FloorTimesEps(nb.den)
\* Whether v is 1 within the tolerance 2e-10 (eps, with room for the rounding
\* of the quotient): the truth values float64 can give to 1 - v <= 2e-10.
\*   a pixel below the maximum:            1 - v >= 2^-31 = 4.7e-10, FALSE;
\*   the maximum, range R = rng / den >= 1: 1 - v <= 1.2e-10, TRUE;
\*   the maximum otherwise: 1 - v is eps / (R + eps) up to rounding, which
\*   crosses 2e-10 at R = 1/2:
\*       R >= 1/2 + 1/(2 TolGuard)          1 - v <= 1.97e-10, TRUE;
\*       R <= 1/2 - 1/(2 TolGuard)          1 - v >= 2.03e-10, FALSE;
\*       between the two the rounding of the samples, of their difference
\*       and of the quotient decides, and both values are possible.
\* With d = 2 rng - den:  |R - 1/2| < 1/(2 TolGuard)  iff  |d| * TolGuard < den.
TolGuard == 64

NormNearOne(nb, p) ==
    IF nb.n[p] # nb.rng THEN {FALSE}
    ELSE IF nb.rng >= nb.den THEN {TRUE}
    ELSE LET d == nb.rng - (nb.den - nb.rng)
             guard == (nb.den - 1) \div TolGuard
         IN  IF d > guard THEN {TRUE}
             ELSE IF -d > guard THEN {FALSE}
             ELSE BOOLEAN
\* v < 1 as float64 decides it: the dividend is below the rounded divisor
NormBelowOne(nb, p) ==
    \/ nb.n[p] < nb.rng
    \/ nb.n[p] = nb.rng /\ ~ EpsAbsorbed(nb)

\* no array yet
NoBand == [dtype |-> "none", h |-> 0, w |-> 0, den |-> 1, px |-> <<>>, usm |-> FALSE]
NoNorm == [h |-> 0, w |-> 0, n |-> <<>>, rng |-> 0, den |-> 1, usm |-> FALSE]

VARIABLES
    \* simulate_band and normalize applied on their own
    fn_pc, fn_band, fn_factor, fn_sharp, fn_sim, fn_norm,
    \* main(): position in the script, "" or the exception that ended the run
    pc, err,
    \* whether the Earth Engine session is open, the features of the shapefile
    ee_ready, gdf,
    \* the scenes the image collection holds (the remote catalogue)
    catalog,
    \* the query: whether the second query was issued, the size of the first
    fallback_used, primary_count, image_list, n_images,
    \* the scene loop: index, the decoded raster, the band mapping
    j, data, bands,
    \* baseline compositions, method loop index, simulated bands, compositions
    compositions, mi, sim_bands, comps,
    \* the output directory, every write of this run in order, the last figure
    fs, write_log, panel

fn_vars == <<fn_pc, fn_band, fn_factor, fn_sharp, fn_sim, fn_norm>>
query_vars == <<catalog, fallback_used, primary_count, image_list, n_images>>
scene_vars == <<j, data, bands, compositions, mi, sim_bands, comps>>
out_vars == <<fs, write_log, panel>>
setup_vars == <<ee_ready, gdf>>
vars == <<fn_vars, pc, err, setup_vars, query_vars, scene_vars, out_vars>>

\* ------------------------------------------------------ configuration
DATE_DEBUT == 20230101
DATE_FIN == 20250630
MAX_NUAGES == 60
FALLBACK_DEBUT == 20160101
FALLBACK_FIN == 20181231
\* line 70: the fallback query filters on MAX_NUAGES again
FALLBACK_NUAGES == MAX_NUAGES
BANDES == <<"B2", "B3", "B4">>
band_names == <<"B2", "B3", "B4">>
required_bands == <<"B2", "B3", "B4">>
method_params == <<[name |-> "SEN2SR", factor |-> 4, sharpness |-> FALSE]>>
\* the one zone of the zones dictionary
zone_id == "combe_valtin"
\* the comparison step's own lists, and the axes plt.subplots(1, 2) makes
methods == <<"brut", "SEN2SR">>
comparison_compositions == <<"rgb">>
NAxes == 2

Range(f) == {f[i] : i \in DOMAIN f}

\* ------------------------------------------------------------- setup
\* lines 15-19: ee.Initialize; when it raises, ee.Authenticate and a second
\* ee.Initialize, whose exception ends the run
Authenticate ==
    /\ pc = "start"
    /\ \E outcome \in {"initialized", "authenticated", "refused"} :
          IF outcome = "refused"
          THEN /\ err' = "EEException"
               /\ pc' = "crashed"
               /\ ee_ready' = ee_ready
          ELSE /\ ee_ready' = TRUE
               /\ pc' = "shapefile"
               /\ err' = err
    /\ UNCHANGED <<fn_vars, gdf, query_vars, scene_vars, out_vars>>

\* A geometry of the shapefile as its GeoJSON gives it.  A ring is held by
\* its number of points: the coordinates of a Polygon are its rings, those
\* of a MultiPolygon its polygons, each a sequence of rings.
Geometry(type, is_empty, coordinates) ==
    [type |-> type, is_empty |-> is_empty, coordinates |-> coordinates]

\* line 32, 37: len(ring) < 3
MinRingPoints == 3

\* lines 30-38: a ring of the geometry is too short
ShortRing(geom) ==
    IF geom.type = "Polygon"
    THEN \E r \in DOMAIN geom.coordinates : geom.coordinates[r] < MinRingPoints
    ELSE IF geom.type = "MultiPolygon"
    THEN \E q \in DOMAIN geom.coordinates : \E r \in DOMAIN geom.coordinates[q] :
            geom.coordinates[q][r] < MinRingPoints
    ELSE FALSE

\* the shapefiles main() is run on: a closed ring of a triangle has 4 points
ValidShapefiles ==
    {<<Geometry("Polygon", FALSE, <<4>>)>>,
     <<Geometry("MultiPolygon", FALSE, << <<4>>, <<5, 4>> >>)>>}

Shapefiles ==
    ValidShapefiles
    \cup {<<Geometry("Polygon", TRUE, <<>>)>>,
          <<Geometry("Polygon", FALSE, <<2>>)>>,
          <<Geometry("MultiPolygon", FALSE, << <<4>>, <<2>> >>)>>,
          <<Geometry("Polygon", FALSE, <<4>>), Geometry("Polygon", FALSE, <<4, 2>>)>>,
          <<Geometry("LineString", FALSE, 2)>>}

NoShapefile == <<>>

\* lines 22-47: the shapefile is read and checked, the zone is built
LoadShapefile ==
    /\ pc = "shapefile"
    /\ IF \E i \in DOMAIN gdf : gdf[i].is_empty
       THEN \* line 25
            /\ err' = "ValueError"
            /\ pc' = "crashed"
       ELSE IF \E i \in DOMAIN gdf : ShortRing(gdf[i])
       THEN \* lines 33, 38
            /\ err' = "ValueError"
            /\ pc' = "crashed"
       ELSE /\ err' = err
            /\ pc' = "query"
    /\ UNCHANGED <<fn_vars, setup_vars, query_vars, scene_vars, out_vars>>

\* ------------------------------------------------------------- query
\* filterDate(start, end) keeps start <= date < end; Filter.lt keeps
\* CLOUDY_PIXEL_PERCENTAGE < MAX_NUAGES
PrimaryFilter(s) ==
    s.date >= DATE_DEBUT /\ s.date < DATE_FIN /\ s.cloud < MAX_NUAGES

FallbackFilter(s) ==
    s.date >= FALLBACK_DEBUT /\ s.date < FALLBACK_FIN /\ s.cloud < FALLBACK_NUAGES

\* line 65: collection.size().getInfo() == 0
NeedsFallback(size) == size = 0

Orders(S) ==
    {f \in [1 .. Cardinality(S) -> S] : \A a, b \in DOMAIN f : a # b => f[a] # f[b]}

\* sort('CLOUDY_PIXEL_PERCENTAGE'): ascending, ties in any order
SortedByCloud(f) == \A a, b \in DOMAIN f : a < b => f[a].cloud <= f[b].cloud

\* lines 61-79
QueryScenes ==
    /\ pc = "query"
    /\ LET primary == {s \in catalog : PrimaryFilter(s)}
           fallback == NeedsFallback(Cardinality(primary))
           collection == IF fallback
                         THEN {s \in catalog : FallbackFilter(s)}
                         ELSE primary
       IN  /\ primary_count' = Cardinality(primary)
           /\ fallback_used' = fallback
           /\ \/ \* the sort succeeds
                 /\ image_list' \in {f \in Orders(collection) : SortedByCloud(f)}
              \/ \* ee.EEException: the collection as it stands, unsorted
                 /\ image_list' \in Orders(collection)
           /\ n_images' = Cardinality(collection)
    /\ pc' = "loop"
    /\ UNCHANGED <<fn_vars, setup_vars, err, catalog, scene_vars, out_vars>>

\* ------------------------------------------------------- file system
\* base_dir / dir / f'{stem}_{j}.{ext}' with base_dir = forets_comparaison/zone
Path(dir, stem, jj, ext) == <<zone_id, dir, stem, jj, ext>>

RawPath(image_id, jj) == Path("brut", <<"raw", image_id>>, jj, "tif")

BaselinePathNoIndex(comp_name, jj) == Path("brut", <<comp_name>>, 0, "png")
\* line 114
BaselinePath(comp_name, jj) == Path("brut", <<comp_name>>, jj, "png")

MethodPathNoIndex(method, comp_name, jj) == Path(method, <<comp_name>>, 0, "png")
\* lines 129, 149
MethodPath(method, comp_name, jj) == Path(method, <<comp_name>>, jj, "png")

\* line 166
ComparisonPath(comp_name, jj) ==
    Path("comparaisons", <<"comparaison", comp_name>>, jj, "png")

ComparedPathBrutOnly(method, comp_name, jj) == Path("brut", <<comp_name>>, jj, "png")
\* lines 157-160: the file shown in a method's panel
ComparedPath(method, comp_name, jj) ==
    IF method = "brut"
    THEN Path("brut", <<comp_name>>, jj, "png")
    ELSE Path("SEN2SR", <<comp_name>>, jj, "png")

\* what a file holds: who wrote it and from what
File(run, kind, jj, image_id, method, comp_name, h, w) ==
    [run |-> run, kind |-> kind, j |-> jj, image_id |-> image_id,
     method |-> method, comp |-> comp_name, h |-> h, w |-> w]

Write(files, path, file) ==
    [q \in DOMAIN files \cup {path} |-> IF q = path THEN file ELSE files[q]]

EmptyFS == [q \in {} |-> File("", "", 0, "", "", "", 0, 0)]

\* an output directory an earlier run of three scenes left behind
StaleFS ==
    LET old(kind, m, jj) == File("earlier", kind, jj, "S2_OLD", m, "rgb", 1, 1)
        idx == 0 .. 2
    IN  [q \in {BaselinePath("rgb", jj) : jj \in idx}
              \cup {MethodPath("SEN2SR", "rgb", jj) : jj \in idx}
              \cup {ComparisonPath("rgb", jj) : jj \in idx} |->
            IF q[2] = "brut" THEN old("image", "brut", q[4])
            ELSE IF q[2] = "SEN2SR" THEN old("image", "SEN2SR", q[4])
            ELSE old("figure", "comparaison", q[4])]

\* ------------------------------------------------------------ rasters
\* The decoded file: nch channels of one shape, of the unsigned 16-bit
\* reflectances of COPERNICUS/S2_SR_HARMONIZED.  Channel i is the base band
\* with i - 1 added to its first pixel, so the channels differ.  A base band
\* is made of dark and of bright samples, the brightest channel reaching the
\* top of the 16-bit range.
Channel(base, i) ==
    [base EXCEPT !.px = [p \in DOMAIN base.px |->
                            IF p = <<0, 0>> THEN base.px[p] + (i - 1) ELSE base.px[p]]]

Raster(base, nch) == [i \in 1 .. nch |-> Channel(base, i)]

\* the download asks for the bands of BANDES; the file holds one channel
\* fewer, as many, or one more
ChannelCounts == (Len(BANDES) - 1) .. (Len(BANDES) + 1)

RasterValues == {0, UINT16_MAX - Len(BANDES)}

RasterBases ==
    UNION {{RawBand("uint16", s[1], s[2], px) :
               px \in [Pixels(s[1], s[2]) -> RasterValues]} :
           s \in {t \in Shapes : t[1] * t[2] <= MaxRasterCells}}

Rasters == {Raster(base, nch) : base \in RasterBases, nch \in ChannelCounts}

NoData == <<>>
NoBands == <<>>
NoImages == <<>>
NoPanel == <<>>

\* lines 80-96: the scene's GeoTIFF is downloaded and written
Download ==
    /\ pc = "loop"
    /\ j < n_images
    /\ LET image == image_list[j + 1]
       IN  /\ fs' = Write(fs, RawPath(image.id, j),
                          File("this", "raster", j, image.id, "brut", "raw", 0, 0))
           /\ write_log' = Append(write_log,
                  [path |-> RawPath(image.id, j), key |-> <<zone_id, j, "raw", "raw">>])
    /\ pc' = "extract"
    /\ UNCHANGED <<fn_vars, setup_vars, err, query_vars, scene_vars, panel>>

\* lines 168-170: the scenes are exhausted
Finish ==
    /\ pc = "loop"
    /\ j >= n_images
    /\ pc' = "done"
    /\ UNCHANGED <<fn_vars, setup_vars, err, query_vars, scene_vars, out_vars>>

\* lines 98-101: data = src.read(); bands = {band: data[i] ...}
ExtractBands ==
    /\ pc = "extract"
    /\ \E raster \in Rasters :
          /\ data' = raster
          /\ IF Len(raster) < Len(band_names)
             THEN \* data[i] beyond the last channel
                  /\ err' = "IndexError"
                  /\ pc' = "crashed"
                  /\ bands' = bands
             ELSE /\ bands' = [code \in Range(band_names) |->
                                  raster[CHOOSE i \in DOMAIN band_names :
                                             band_names[i] = code]]
                  /\ err' = err
                  /\ pc' = "baseline"
    /\ UNCHANGED <<fn_vars, setup_vars, query_vars, j, compositions, mi, sim_bands, comps,
                   out_vars>>

\* ------------------------------------------------------- compositions
\* np.stack([...], axis=-1): an (H, W, 3) image of the three channels
Stack(chans) ==
    [h |-> chans[1].h, w |-> chans[1].w, c |-> Len(chans), chan |-> chans]

\* line 106: the bands of the baseline 'rgb' stack, red first
BaselineRgbBands == <<"B4", "B3", "B2">>

SimRgbBandsReversed == <<"B2", "B3", "B4">>
\* lines 137-139: the bands of a method's 'rgb' stack, red first
SimRgbBands == <<"B4", "B3", "B2">>

\* the keys of the compositions / comps dictionaries, in insertion order
composition_names == <<"rgb">>

\* the channels of a stack over a band mapping
Rgb(order, mapping) ==
    Stack(<<normalize(mapping[order[1]]), normalize(mapping[order[2]]),
            normalize(mapping[order[3]])>>)

RECURSIVE SimulateAll(_, _, _)
\* lines 131-135: sim_bands[band_name] = simulate_band(...) for each required
\* band in turn, a later assignment replacing an earlier one
SimulateAll(codes, mapping, params) ==
    IF codes = <<>> THEN <<>>
    ELSE LET last == codes[Len(codes)]
         IN  (last :> simulate_band(mapping[last], params.factor, params.sharpness))
             @@ SimulateAll(SubSeq(codes, 1, Len(codes) - 1), mapping, params)

RECURSIVE Composed(_, _, _)
\* a compositions dictionary: every name of names bound to the stack
Composed(names, order, mapping) ==
    IF names = <<>> THEN <<>>
    ELSE (names[Len(names)] :> Rgb(order, mapping))
         @@ Composed(SubSeq(names, 1, Len(names) - 1), order, mapping)

RECURSIVE WriteAll(_, _)
\* the writes of a sequence of [path, file, key] in order
WriteAll(files, ws) ==
    IF ws = <<>> THEN files
    ELSE WriteAll(Write(files, ws[1].path, ws[1].file), Tail(ws))

Logged(ws) == [i \in DOMAIN ws |-> [path |-> ws[i].path, key |-> ws[i].key]]

\* lines 102-114: the baseline compositions, each saved under brut/
BaselineCompositions ==
    /\ pc = "baseline"
    /\ IF Range(BaselineRgbBands) \subseteq DOMAIN bands
       THEN LET ws == [i \in DOMAIN composition_names |->
                          LET name == composition_names[i]
                          IN  [path |-> BaselinePath(name, j),
                               file |-> File("this", "image", j, image_list[j + 1].id,
                                             "brut", name, compositions'[name].h,
                                             compositions'[name].w),
                               key |-> <<zone_id, j, "brut", name>>]]
            IN  /\ compositions' = Composed(composition_names, BaselineRgbBands, bands)
                /\ fs' = WriteAll(fs, ws)
                /\ write_log' = write_log \o Logged(ws)
                /\ mi' = 1
                /\ pc' = "methods"
                /\ err' = err
       ELSE \* bands[...] of a missing key
            /\ err' = "KeyError"
            /\ pc' = "crashed"
            /\ UNCHANGED <<compositions, fs, write_log, mi>>
    /\ UNCHANGED <<fn_vars, setup_vars, query_vars, j, data, bands, sim_bands, comps, panel>>

\* lines 128-149, one turn of the method loop: the required bands are
\* simulated, the method's compositions computed and saved under its folder
RunMethod ==
    /\ pc = "methods"
    /\ mi <= Len(method_params)
    /\ LET params == method_params[mi]
       IN  IF Range(required_bands) \subseteq DOMAIN bands
              /\ Range(SimRgbBands) \subseteq Range(required_bands)
           THEN LET ws == [i \in DOMAIN composition_names |->
                              LET name == composition_names[i]
                              IN  [path |-> MethodPath(params.name, name, j),
                                   file |-> File("this", "image", j,
                                                 image_list[j + 1].id, params.name,
                                                 name, comps'[name].h, comps'[name].w),
                                   key |-> <<zone_id, j, params.name, name>>]]
                IN  /\ sim_bands' = SimulateAll(required_bands, bands, params)
                    /\ comps' = Composed(composition_names, SimRgbBands, sim_bands')
                    /\ fs' = WriteAll(fs, ws)
                    /\ write_log' = write_log \o Logged(ws)
                    /\ mi' = mi + 1
                    /\ pc' = pc
                    /\ err' = err
           ELSE \* bands[band_name] or sim_bands[...] of a missing key
                /\ err' = "KeyError"
                /\ pc' = "crashed"
                /\ UNCHANGED <<sim_bands, comps, fs, write_log, mi>>
    /\ UNCHANGED <<fn_vars, setup_vars, query_vars, j, data, bands, compositions, panel>>

\* lines 156-164 for one composition: the files are read in the order of
\* methods, each before its axis axs[i] is taken; the exception of the first
\* step that fails, "" when none does
CompareError(name) ==
    LET missing(i) == ComparedPath(methods[i], name, j) \notin DOMAIN fs
        bad == {i \in DOMAIN methods : missing(i) \/ i > NAxes}
    IN  IF bad = {} THEN ""
        ELSE LET first == CHOOSE i \in bad : \A k \in bad : i <= k
             IN  IF missing(first) THEN "FileNotFoundError" ELSE "IndexError"

\* lines 151-167: line 152 rebinds compositions to the list of names; then
\* one figure per name, one axis per entry of methods, each showing the file
\* read back from the method's folder.  The figures before the first failing
\* one are saved.  data, bands, sim_bands and comps keep the scene's arrays
\* until the next scene assigns them; j advances when the scene is done.
Compare ==
    /\ pc = "methods"
    /\ mi > Len(method_params)
    /\ LET names == comparison_compositions
           failing == {k \in DOMAIN names : CompareError(names[k]) # ""}
           stop == IF failing = {} THEN Len(names) + 1
                   ELSE CHOOSE k \in failing : \A m \in failing : k <= m
           done == SubSeq(names, 1, stop - 1)
           ws == [k \in DOMAIN done |->
                     [path |-> ComparisonPath(done[k], j),
                      file |-> File("this", "figure", j, image_list[j + 1].id,
                                    "comparaison", done[k], 1, Len(methods)),
                      key |-> <<zone_id, j, "comparaison", done[k]>>]]
       IN  /\ compositions' = names
           /\ fs' = WriteAll(fs, ws)
           /\ write_log' = write_log \o Logged(ws)
           /\ panel' = IF done = <<>> THEN panel
                       ELSE [name \in Range(done) |->
                                [j |-> j,
                                 image_id |-> image_list[j + 1].id,
                                 cells |-> [i \in DOMAIN methods |->
                                    [title |-> methods[i],
                                     path |-> ComparedPath(methods[i], name, j),
                                     img |-> fs[ComparedPath(methods[i], name, j)]]]]]
           /\ IF failing = {}
              THEN /\ j' = j + 1
                   /\ pc' = "loop"
                   /\ err' = err
              ELSE /\ j' = j
                   /\ pc' = "crashed"
                   /\ err' = CompareError(names[stop])
    /\ UNCHANGED <<fn_vars, setup_vars, query_vars, data, bands, mi, sim_bands, comps>>

\* ------------------------------------------------------ the functions
FnIdle ==
    /\ fn_pc = "idle"
    /\ fn_band = NoBand
    /\ fn_factor = 1
    /\ fn_sharp = FALSE
    /\ fn_sim = NoBand
    /\ fn_norm = NoNorm

MainIdle ==
    /\ pc = "idle"
    /\ err = ""
    /\ ee_ready = FALSE
    /\ gdf = NoShapefile
    /\ catalog = {}
    /\ fallback_used = FALSE
    /\ primary_count = 0
    /\ image_list = <<>>
    /\ n_images = 0
    /\ j = 0
    /\ data = NoData
    /\ bands = NoBands
    /\ compositions = NoImages
    /\ mi = 1
    /\ sim_bands = NoBands
    /\ comps = NoImages
    /\ fs = EmptyFS
    /\ write_log = <<>>
    /\ panel = NoPanel

main_vars == <<pc, err, setup_vars, query_vars, scene_vars, out_vars>>

\* fn_sim = simulate_band(fn_band, fn_factor, fn_sharp)
Simulate ==
    /\ fn_pc = "start"
    /\ fn_sim' = simulate_band(fn_band, fn_factor, fn_sharp)
    /\ fn_pc' = "simulated"
    /\ UNCHANGED <<fn_band, fn_factor, fn_sharp, fn_norm, main_vars>>

\* fn_norm = normalize(fn_band), as for the baseline composition
NormalizeRaw ==
    /\ fn_pc = "start"
    /\ fn_norm' = normalize(fn_band)
    /\ fn_pc' = "normalized_raw"
    /\ UNCHANGED <<fn_band, fn_factor, fn_sharp, fn_sim, main_vars>>

\* fn_norm = normalize(fn_sim), as for a method's composition
NormalizeSim ==
    /\ fn_pc = "simulated"
    /\ ~ fn_sim.usm
    /\ fn_norm' = normalize(fn_sim)
    /\ fn_pc' = "normalized_sim"
    /\ UNCHANGED <<fn_band, fn_factor, fn_sharp, fn_sim, main_vars>>

\* ------------------------------------------------------ specifications
\* the scenes of the catalogue main() is run against
Scene(id, date, cloud) == [id |-> id, date |-> date, cloud |-> cloud]

MainScenes ==
    {Scene("S2A_20240615", 20240615, 10),
     Scene("S2B_20230701", 20230701, 35),
     Scene("S2A_20170801", 20170801, 20)}

\* no scene; one or two scenes of the primary window; a scene of the
\* fallback window alone, or beside one of the primary window
MainCatalogs ==
    {c \in SUBSET MainScenes :
        Cardinality(c) <= 2 /\ ~ (\E s \in c : s.id = "S2B_20230701" /\ Cardinality(c) = 1)}

\* main() starts: a shapefile, a catalogue, an output directory empty or
\* left by a run
Init ==
    /\ FnIdle
    /\ pc = "start"
    /\ err = ""
    /\ ee_ready = FALSE
    /\ gdf \in Shapefiles
    /\ catalog \in MainCatalogs
    /\ fallback_used = FALSE
    /\ primary_count = 0
    /\ image_list = <<>>
    /\ n_images = 0
    /\ j = 0
    /\ data = NoData
    /\ bands = NoBands
    /\ compositions = NoImages
    /\ mi = 1
    /\ sim_bands = NoBands
    /\ comps = NoImages
    /\ fs \in {EmptyFS, StaleFS}
    /\ write_log = <<>>
    /\ panel = NoPanel

Next ==
    \/ Authenticate
    \/ LoadShapefile
    \/ QueryScenes
    \/ Download
    \/ ExtractBands
    \/ BaselineCompositions
    \/ RunMethod
    \/ Compare
    \/ Finish

Spec == Init /\ [][Next]_vars

\* a band, a factor and a sharpening flag for one call
InitFn ==
    /\ MainIdle
    /\ fn_pc = "start"
    /\ fn_band \in Bands
    /\ fn_factor \in 1 .. MaxFactor
    /\ fn_sharp \in BOOLEAN
    /\ fn_sim = NoBand
    /\ fn_norm = NoNorm

NextFn == Simulate \/ NormalizeRaw \/ NormalizeSim

SpecFn == InitFn /\ [][NextFn]_vars

\* the query alone, over catalogues around the borders of both filters
QueryDates ==
    {20151231, 20160101, 20181230, 20181231, 20221231, 20230101, 20250629, 20250630}
QueryClouds == {0, 59, 60}
QueryScenesUniverse ==
    {Scene("S2", d, c) : d \in QueryDates, c \in QueryClouds}

InitQuery ==
    /\ FnIdle
    /\ err = ""
    /\ pc = "query"
    /\ ee_ready = TRUE
    /\ gdf \in ValidShapefiles
    /\ catalog \in {c \in SUBSET QueryScenesUniverse : Cardinality(c) <= MaxCatalog}
    /\ fallback_used = FALSE
    /\ primary_count = 0
    /\ image_list = <<>>
    /\ n_images = 0
    /\ j = 0
    /\ data = NoData
    /\ bands = NoBands
    /\ compositions = NoImages
    /\ mi = 1
    /\ sim_bands = NoBands
    /\ comps = NoImages
    /\ fs = EmptyFS
    /\ write_log = <<>>
    /\ panel = NoPanel

NextQuery == QueryScenes

SpecQuery == InitQuery /\ [][NextQuery]_vars

\* ================================================================ claims

\* ---------------------------------------------------------------- C1
\* C1: simulate_band(band, factor=1, sharpness=False) returns an array of the
\* same shape and the same values as band, whatever the band's dtype.
C1_IdentityMethod ==
    (fn_pc = "simulated" /\ fn_factor = 1 /\ ~ fn_sharp)
        => SameValues(fn_sim, fn_band)

\* ---------------------------------------------------------------- C2
\* C2: for every factor k >= 1, with or without sharpening, the simulated
\* band has shape (H * k, W * k) for a band of shape (H, W).
C2_SimulatedShape ==
    fn_pc \in {"simulated", "normalized_sim"}
        => /\ fn_sim.h = fn_band.h * fn_factor
           /\ fn_sim.w = fn_band.w * fn_factor
           /\ DOMAIN fn_sim.px = Pixels(fn_band.h * fn_factor, fn_band.w * fn_factor)

\* a 2 x 2 band upsampled four times and sharpened
C2_Witness ==
    /\ fn_pc = "simulated"
    /\ fn_factor = 4
    /\ fn_sharp
    /\ fn_band.h = 2
    /\ fn_band.w = 2
    /\ fn_sim.h = 8

\* ---------------------------------------------------------------- C3
Normalized == fn_pc \in {"normalized_raw", "normalized_sim"}

\* what holds of every band: values in [0, 1], the minimum exactly 0, a
\* constant band all 0
NormalizeBasics ==
    /\ \A p \in DOMAIN fn_norm.n : NormGeZero(fn_norm, p) /\ NormLeOne(fn_norm, p)
    /\ \E p \in DOMAIN fn_norm.n : NormIsZero(fn_norm, p)
    /\ fn_norm.rng = 0 => \A p \in DOMAIN fn_norm.n : NormIsZero(fn_norm, p)

\* C3 as stated: normalize yields values in [0, 1] with minimum exactly 0;
\* for every non-constant band the maximum is 1 within a tolerance of eps
\* (no more is asked than that float64 can find some value within 2e-10 of 1);
\* for every constant band every value is 0.
C3_NormalizeMaxIsOne ==
    Normalized
        => /\ NormalizeBasics
           /\ fn_norm.rng > 0
                 => \E p \in DOMAIN fn_norm.n : TRUE \in NormNearOne(fn_norm, p)

\* C3 as amended: values in [0, 1], minimum exactly 0, a constant band all 0;
\* the maximum of a non-constant band, at the band's largest samples, is
\* (max - min) / (max - min + eps): it is 1 within the tolerance when the
\* range max - min is at least 1 and outside the tolerance when the range is
\* at most 1/4; it is below 1 while the range is below 2^20, and from a range
\* of 2^20 on float64 rounds the divisor to max - min and the maximum is
\* exactly 1.
C3_NormalizeRange ==
    Normalized
        => /\ NormalizeBasics
           /\ fn_norm.rng > 0
                 => \E p \in DOMAIN fn_norm.n :
                       /\ fn_norm.n[p] = fn_norm.rng
                       /\ \A q \in DOMAIN fn_norm.n : fn_norm.n[q] <= fn_norm.n[p]
                       /\ fn_norm.rng >= fn_norm.den
                             => NormNearOne(fn_norm, p) = {TRUE}
                       /\ fn_norm.rng <= fn_norm.den \div 4
                             => \A q \in DOMAIN fn_norm.n :
                                   NormNearOne(fn_norm, q) = {FALSE}
                       /\ fn_norm.rng \div fn_norm.den < EpsAbsorbedFrom
                             => NormBelowOne(fn_norm, p)
                       /\ fn_norm.rng \div fn_norm.den >= EpsAbsorbedFrom
                             => ~ NormBelowOne(fn_norm, p) /\ NormLeOne(fn_norm, p)

\* a float64 band of integer samples, upsampled twice to a range of 1/4, has
\* been normalised: simulate_band has divided nothing, the range is below 1
C3_Witness ==
    /\ fn_pc = "normalized_sim"
    /\ fn_band.dtype = "float64"
    /\ fn_band.den = 1
    /\ fn_factor = 2
    /\ fn_norm.rng > 0
    /\ 4 * fn_norm.rng = fn_norm.den

\* ---------------------------------------------------------------- C4
\* C4: the rgb composition over bands of shape (H, W) is an (H, W, 3) image
\* whose channels are normalize of B4, B3, B2 in that order (B2, B3, B4 being
\* channels 1, 2, 3 of the raster), each normalised on its own; the
\* composition of the simulated bands uses the same order and formula on the
\* bands simulate_band returns, all of shape (H * factor, W * factor).
C4_RgbComposition ==
    /\ pc = "methods"
          => LET img == compositions["rgb"]
             IN  /\ img.c = 3
                 /\ img.h = data[1].h
                 /\ img.w = data[1].w
                 /\ img.chan[1] = normalize(data[3])
                 /\ img.chan[2] = normalize(data[2])
                 /\ img.chan[3] = normalize(data[1])
    /\ (pc = "methods" /\ mi > 1)
          => LET img == comps["rgb"]
                 params == method_params[mi - 1]
                 sim(i) == simulate_band(data[i], params.factor, params.sharpness)
             IN  /\ img.c = 3
                 /\ img.h = data[1].h * params.factor
                 /\ img.w = data[1].w * params.factor
                 /\ \A code \in DOMAIN sim_bands :
                       /\ sim_bands[code].h = img.h
                       /\ sim_bands[code].w = img.w
                 /\ img.chan[1] = normalize(sim(3))
                 /\ img.chan[2] = normalize(sim(2))
                 /\ img.chan[3] = normalize(sim(1))

\* the compositions of a second scene exist, after those of a first scene of
\* another raster; their red and blue channels differ
C4_Witness ==
    /\ pc = "methods"
    /\ mi > 1
    /\ j = 1
    /\ comps["rgb"].chan[1] # comps["rgb"].chan[3]
    /\ compositions["rgb"].chan[1] # compositions["rgb"].chan[3]
    /\ data[1].w = 2

\* ---------------------------------------------------------------- C5
\* the scene the raster in data was downloaded for
DataScene == IF pc \in {"baseline", "methods", "crashed"} THEN j ELSE j - 1

\* the files of this run made from scene jj, the raw GeoTIFF aside
ArtifactsOf(jj) ==
    {q \in DOMAIN fs : fs[q].run = "this" /\ fs[q].j = jj /\ fs[q].kind # "raster"}

\* bands is the mapping of the expected codes to the channels of data
BandsBuiltFromData ==
    \A i \in DOMAIN band_names :
        /\ i \in DOMAIN data
        /\ band_names[i] \in DOMAIN bands
        /\ bands[band_names[i]] = data[i]

\* C5: when the decoded raster has more or fewer channels than expected band
\* codes, building the band mapping fails with a FormatError for that scene
\* and no band mapping, composition or artifact is produced from that raster.
C5_ChannelMismatchRejected ==
    (data # NoData /\ Len(data) # Len(band_names))
        => /\ pc = "crashed"
           /\ err = "FormatError"
           /\ ~ BandsBuiltFromData
           /\ ArtifactsOf(DataScene) = {}

\* ---------------------------------------------------------------- C7
\* where the step that made an image saved it: line 114 for the baseline,
\* line 149 for a method
MethodOrBaselinePath(m, name, jj) ==
    IF m = "brut" THEN BaselinePath(name, jj) ELSE MethodPath(m, name, jj)

\* C7: for every scene and every composition the comparison figure holds
\* exactly one panel for the baseline and one for each method of
\* method_params, in that order; panel i is titled with its method's name and
\* shows that method's image of the same composition and scene.
C7_ComparisonPanels ==
    /\ panel # NoPanel
          => /\ DOMAIN panel = Range(composition_names)
             /\ \A name \in DOMAIN panel :
                   LET cells == panel[name].cells
                       titles == [i \in DOMAIN cells |-> cells[i].title]
                       supplied == [i \in DOMAIN method_params |-> method_params[i].name]
                   IN  /\ titles = <<"brut">> \o supplied
                       /\ \A i \in DOMAIN cells :
                             /\ cells[i].img.kind = "image"
                             /\ cells[i].img.method = cells[i].title
                             /\ cells[i].img.comp = name
                             /\ cells[i].img.image_id = panel[name].image_id
                             /\ cells[i].img.j = panel[name].j
                             /\ cells[i].path = MethodOrBaselinePath(cells[i].title, name,
                                                                     panel[name].j)
    /\ \A jj \in 0 .. j - 1 : \A name \in Range(composition_names) :
          /\ ComparisonPath(name, jj) \in DOMAIN fs
          /\ fs[ComparisonPath(name, jj)].run = "this"

\* the figure of a second scene has been made
C7_Witness ==
    /\ panel # NoPanel
    /\ j = 2
    /\ panel["rgb"].j = 1
    /\ panel["rgb"].cells[2].title = "SEN2SR"

\* ---------------------------------------------------------------- C8
MethodsAndBaseline == {"brut"} \cup {method_params[i].name : i \in DOMAIN method_params}

\* C8: in one run every (zone, scene index, method or baseline, composition)
\* is written to exactly one artifact path and every (zone, scene index,
\* composition) to exactly one comparison path, and no path is written for
\* two of them: no write of the run replaces another.
C8_ArtifactPathsInjective ==
    /\ \A a, b \in DOMAIN write_log :
          a # b => /\ write_log[a].path # write_log[b].path
                   /\ write_log[a].key # write_log[b].key
    /\ \A jj \in 0 .. j - 1 : \A name \in Range(composition_names) :
          /\ \A m \in MethodsAndBaseline :
                \E a \in DOMAIN write_log : write_log[a].key = <<zone_id, jj, m, name>>
          /\ \E a \in DOMAIN write_log :
                write_log[a].key = <<zone_id, jj, "comparaison", name>>

\* a run over two scenes has ended
C8_Witness ==
    /\ pc = "done"
    /\ j = 2
    /\ Len(write_log) = 8

\* ---------------------------------------------------------------- C9
\* C9: the fallback query is issued only when the primary query returns no
\* scene, and it widens the primary filter: every scene the primary filter
\* accepts is accepted by the fallback filter, whose cloud threshold is a
\* second one, different from the primary threshold.
C9_FallbackWidens ==
    pc = "loop"
        => /\ fallback_used => primary_count = 0
           /\ \A s \in catalog : PrimaryFilter(s) => FallbackFilter(s)
           /\ FALLBACK_NUAGES # MAX_NUAGES

\* --------------------------------------------------------------- C10
\* the position in write_log of the write of path, 0 if there is none
WrittenAt(path) ==
    IF \E a \in DOMAIN write_log : write_log[a].path = path
    THEN CHOOSE a \in DOMAIN write_log : write_log[a].path = path
    ELSE 0

\* C10: every image file the comparison step of scene j reads was written
\* earlier in the same iteration, after that scene's download and before its
\* figure, from that scene's bands; the step never finds a file missing nor
\* reads one left by another scene or an earlier run.
C10_ComparisonReadsFreshFiles ==
    /\ err # "FileNotFoundError"
    /\ panel # NoPanel
          => \A name \in DOMAIN panel : \A i \in DOMAIN panel[name].cells :
                LET cell == panel[name].cells[i]
                    jj == panel[name].j
                IN  /\ cell.img.run = "this"
                    /\ cell.img.j = jj
                    /\ cell.img.image_id = image_list[jj + 1].id
                    /\ WrittenAt(cell.path) > WrittenAt(RawPath(image_list[jj + 1].id, jj))
                    /\ WrittenAt(RawPath(image_list[jj + 1].id, jj)) > 0
                    /\ WrittenAt(cell.path) < WrittenAt(ComparisonPath(name, jj))

\* the second scene was compared in a directory an earlier run had filled
C10_Witness ==
    /\ panel # NoPanel
    /\ \E q \in DOMAIN fs : fs[q].run = "earlier"
    /\ panel["rgb"].j = 1
    /\ pc = "loop"

====
